---------------------------- MODULE Spec2Model ----------------------------
(***************************************************************************)
(* A model of src/src/App.tsx: the React component App of the QR           *)
(* generator.  The state is the component's useState cells, the            *)
(* localStorage entry 'qr_history', the clipboard writes in flight and the *)
(* pending setTimeout callbacks.  One action stands for one turn of the    *)
(* event loop: an event handler, the re-render it causes and the effects   *)
(* of that render.                                                         *)
(*                                                                         *)
(* Strings are sequences of one-character strings.  The text kept in       *)
(* localStorage is a sequence of lexemes: punctuation, key names, digits   *)
(* and the characters of string literals, one element each.                *)
(***************************************************************************)
EXTENDS Integers, Sequences, FiniteSets, TLC

VARIABLES
    phase,      \* "unmounted" | "mounted" | "ready" | "crashed"
    url,        \* useState('https://google.com'), line 35
    fgColor,    \* line 36
    bgColor,    \* line 37
    size,       \* line 38
    history,    \* line 39: the JavaScript value held by the history cell
    copied,     \* line 40
    storage,    \* localStorage entry 'qr_history'
    pending,    \* the setHistory update queued by the load effect
    writes,     \* clipboard writes in flight (promises not yet settled)
    timers,     \* deadlines of the pending setTimeout callbacks, in creation order
    now,        \* Date.now(), in ms since the session's origin
    turn,       \* the latest turn: its handler and the side effects it performed, in order
    added,      \* the trimmed addresses addToHistory was called with, oldest first
    lastOk,     \* time of the latest successful clipboard write, -1 when none
    before      \* the history held when the page was last left, and the storage it was loaded with

vars == <<phase, url, fgColor, bgColor, size, history, copied, storage, pending,
          writes, timers, now, turn, added, lastOk, before>>

---------------------------------------------------------------------------
(* Bounds of the model. *)

MaxSeconds == 1        \* the clock of the history store runs stops after this many seconds
MaxCalls == 2          \* addToHistory calls in a session run
MaxDistinct == 12      \* addToHistory calls in a run of distinct addresses
MaxCopySeconds == 4    \* the clock of the clipboard runs stops after this many seconds
MaxCopies == 2         \* copies under way: writes in flight and resets not yet fired

---------------------------------------------------------------------------
(* Strings *)

Q == "\""
BS == "\\"
Whitespace == {" ", "\t", "\n"}

\* String.prototype.trim: strips leading and trailing whitespace.
RECURSIVE TrimStart(_)
TrimStart(s) ==
    IF s = <<>> THEN <<>>
    ELSE IF Head(s) \in Whitespace THEN TrimStart(Tail(s))
    ELSE s

RECURSIVE TrimEnd(_)
TrimEnd(s) ==
    IF s = <<>> THEN <<>>
    ELSE IF s[Len(s)] \in Whitespace THEN TrimEnd(SubSeq(s, 1, Len(s) - 1))
    ELSE s

Trim(s) == TrimEnd(TrimStart(s))

\* Array.prototype.slice(0, n)
Slice0(s, n) == SubSeq(s, 1, IF Len(s) < n THEN Len(s) ELSE n)

---------------------------------------------------------------------------
(* JavaScript values, as far as JSON.parse can produce them here. *)

JNull == [kind |-> "null"]
JNum(n) == [kind |-> "number", num |-> n]
JStr(s) == [kind |-> "string", chars |-> s]
JArr(items) == [kind |-> "array", items |-> items]

\* interface QRHistoryItem
QRHistoryItem(id, u, fg, bg, ts) ==
    [kind |-> "object", id |-> id, url |-> u, fgColor |-> fg, bgColor |-> bg,
     timestamp |-> ts]

ItemKeys == <<"id", "url", "fgColor", "bgColor", "timestamp">>

---------------------------------------------------------------------------
(* JSON.stringify, on the values above. *)

Digits == <<"0", "1", "2", "3", "4", "5", "6", "7", "8", "9">>
DigitSet == {Digits[i] : i \in 1..10}
DigitValue(d) == (CHOOSE i \in 1..10 : Digits[i] = d) - 1

RECURSIVE NumLit(_)
NumLit(n) ==
    IF n < 10 THEN <<Digits[n + 1]>>
    ELSE NumLit(n \div 10) \o <<Digits[(n % 10) + 1]>>

EscapeChar(c) ==
    IF c = Q \/ c = BS THEN <<BS, c>>
    ELSE IF c = "\t" THEN <<BS, "t">>
    ELSE IF c = "\n" THEN <<BS, "n">>
    ELSE <<c>>

RECURSIVE Escape(_)
Escape(s) == IF s = <<>> THEN <<>> ELSE EscapeChar(Head(s)) \o Escape(Tail(s))

StrLit(s) == <<Q>> \o Escape(s) \o <<Q>>

KeyLit(k) == <<Q, k, Q, ":">>

\* a member's value: a string (its characters) or a number
MemberLit(k, v) == KeyLit(k) \o (IF k = "timestamp" THEN NumLit(v) ELSE StrLit(v))

RECURSIVE MembersLit(_, _, _)
MembersLit(o, keys, first) ==
    IF keys = <<>> THEN <<>>
    ELSE IF Head(keys) \notin DOMAIN o THEN MembersLit(o, Tail(keys), first)
    ELSE (IF first THEN <<>> ELSE <<",">>)
         \o MemberLit(Head(keys), o[Head(keys)])
         \o MembersLit(o, Tail(keys), FALSE)

ObjLit(o) == <<"{">> \o MembersLit(o, ItemKeys, TRUE) \o <<"}">>

RECURSIVE Stringify(_)
RECURSIVE ItemsLit(_)
ItemsLit(items) ==
    IF items = <<>> THEN <<>>
    ELSE Stringify(Head(items))
         \o (IF Len(items) > 1 THEN <<",">> ELSE <<>>)
         \o ItemsLit(Tail(items))

Stringify(v) ==
    CASE v.kind = "null" -> <<"null">>
      [] v.kind = "number" -> NumLit(v.num)
      [] v.kind = "string" -> StrLit(v.chars)
      [] v.kind = "array" -> <<"[">> \o ItemsLit(v.items) \o <<"]">>
      [] v.kind = "object" -> ObjLit(v)

---------------------------------------------------------------------------
(* JSON.parse, on the lexemes Stringify writes.  A parse yields            *)
(* [ok, val, next]: whether a value was read at position i, the value and  *)
(* the position after it.  ok = FALSE is a SyntaxError.                    *)

Failed == [ok |-> FALSE, val |-> JNull, next |-> 0]
Read(v, n) == [ok |-> TRUE, val |-> v, next |-> n]

Unescape(c) == IF c = "t" THEN "\t" ELSE IF c = "n" THEN "\n" ELSE c

\* the characters of a string literal, i being the position after the opening quote
RECURSIVE ScanString(_, _, _)
ScanString(t, i, acc) ==
    IF i > Len(t) THEN Failed
    ELSE IF t[i] = Q THEN Read(acc, i + 1)
    ELSE IF t[i] = BS THEN
        IF i + 1 <= Len(t) /\ t[i + 1] \in {Q, BS, "t", "n"}
        THEN ScanString(t, i + 2, Append(acc, Unescape(t[i + 1])))
        ELSE Failed
    ELSE IF t[i] \in {"\t", "\n"} THEN Failed
    ELSE ScanString(t, i + 1, Append(acc, t[i]))

RECURSIVE ScanDigits(_, _, _)
ScanDigits(t, i, acc) ==
    IF i <= Len(t) /\ t[i] \in DigitSet
    THEN ScanDigits(t, i + 1, 10 * acc + DigitValue(t[i]))
    ELSE Read(acc, i)

ParseNumber(t, i) ==
    IF t[i] = "0" /\ i + 1 <= Len(t) /\ t[i + 1] \in DigitSet THEN Failed
    ELSE ScanDigits(t, i, 0)

RECURSIVE ParseValue(_, _)
RECURSIVE ParseItems(_, _, _)
RECURSIVE ParseMembers(_, _, _)

\* the items of an array, i being the position of the next item
ParseItems(t, i, acc) ==
    LET r == ParseValue(t, i) IN
    IF ~r.ok \/ r.next > Len(t) THEN Failed
    ELSE IF t[r.next] = "]" THEN Read(JArr(Append(acc, r.val)), r.next + 1)
    ELSE IF t[r.next] = "," THEN ParseItems(t, r.next + 1, Append(acc, r.val))
    ELSE Failed

\* the members of an object, i being the position of the next member's key
ParseMembers(t, i, acc) ==
    IF i + 4 > Len(t) \/ t[i] # Q \/ t[i + 2] # Q \/ t[i + 3] # ":" THEN Failed
    ELSE
        LET k == t[i + 1]
            r == ParseValue(t, i + 4)
            v == IF r.val.kind = "string" THEN r.val.chars
                 ELSE IF r.val.kind = "number" THEN r.val.num
                 ELSE r.val
            o == (k :> v) @@ acc
        IN  IF ~r.ok \/ r.next > Len(t) THEN Failed
            ELSE IF t[r.next] = "}" THEN Read(o, r.next + 1)
            ELSE IF t[r.next] = "," THEN ParseMembers(t, r.next + 1, o)
            ELSE Failed

ParseValue(t, i) ==
    IF i > Len(t) THEN Failed
    ELSE IF t[i] = "null" THEN Read(JNull, i + 1)
    ELSE IF t[i] \in DigitSet THEN
        LET r == ParseNumber(t, i) IN IF r.ok THEN Read(JNum(r.val), r.next) ELSE Failed
    ELSE IF t[i] = Q THEN
        LET r == ScanString(t, i + 1, <<>>) IN IF r.ok THEN Read(JStr(r.val), r.next) ELSE Failed
    ELSE IF t[i] = "[" THEN
        IF i + 1 <= Len(t) /\ t[i + 1] = "]" THEN Read(JArr(<<>>), i + 2)
        ELSE ParseItems(t, i + 1, <<>>)
    ELSE IF t[i] = "{" THEN
        IF i + 1 <= Len(t) /\ t[i + 1] = "}" THEN Read([kind |-> "object"], i + 2)
        ELSE ParseMembers(t, i + 1, [kind |-> "object"])
    ELSE Failed

\* JSON.parse(text): the whole text must be one value
JSONParse(t) ==
    LET r == ParseValue(t, 1) IN
    IF r.ok /\ r.next = Len(t) + 1 THEN r ELSE Failed

---------------------------------------------------------------------------
(* The component's state and what a render does with it. *)

InitialUrl == <<"h", "t", "t", "p", "s", ":", "/", "/", "g", "o", "o", "g", "l", "e", ".", "c", "o", "m">>
InitialFgColor == <<"#", "0", "0", "0", "0", "0", "0">>
InitialBgColor == <<"#", "f", "f", "f", "f", "f", "f">>
InitialSize == 256
HistoryCap == 10
CopiedResetMs == 2000

Absent == [present |-> FALSE, text |-> <<>>]
Stored(t) == [present |-> TRUE, text |-> t]
NoUpdate == [set |-> FALSE, val |-> JNull]
\* a turn: the handler that ran, the side effects it performed in order, whether
\* downloadQR found its canvas and context, the history item clicked
Turn(op, effects, drawable, item) ==
    [op |-> op, effects |-> effects, drawable |-> drawable, item |-> item]
Did(op) == Turn(op, <<>>, FALSE, 0)
NoTurn == Did("none")

\* history.length, -1 standing for undefined
JsLength(h) ==
    IF h.kind = "array" THEN Len(h.items)
    ELSE IF h.kind = "string" THEN Len(h.chars)
    ELSE -1

\* [...prev]: the elements a spread of the value yields
Spread(h) ==
    IF h.kind = "array" THEN h.items
    ELSE IF h.kind = "string" THEN [i \in 1..Len(h.chars) |-> JStr(<<h.chars[i]>>)]
    ELSE <<>>

Undefined == <<"undefined">>

\* item.url
ItemUrl(item) ==
    IF item.kind = "object" /\ "url" \in DOMAIN item THEN item.url ELSE Undefined

\* The render of lines 247-296 throws a TypeError when history is null
\* (history.length), when it has no map method (history.map) and when an item
\* is null (item.id).
RenderThrows(h) ==
    \/ h.kind = "null"
    \/ h.kind # "array" /\ JsLength(h) # 0
    \/ h.kind = "array" /\ \E i \in 1..Len(h.items) : h.items[i].kind = "null"

\* The save effect, lines 56-58
SaveHistory(h) == Stored(Stringify(h))

\* the save effect writing the history of the previous render
CommitHistoryStale(h) ==
    /\ history' = h
    /\ IF RenderThrows(h)
       THEN phase' = "crashed" /\ storage' = storage
       ELSE phase' = "ready" /\ storage' = SaveHistory(history)

\* A commit in which the history cell holds a new value h: the render, then the
\* save effect, which depends on [history].  A render that throws unmounts the
\* tree and runs no effect.
CommitHistory(h) ==
    /\ history' = h
    /\ IF RenderThrows(h)
       THEN phase' = "crashed" /\ storage' = storage
       ELSE phase' = "ready" /\ storage' = SaveHistory(h)

Interactive == phase = "ready"

---------------------------------------------------------------------------
(* Startup: lines 35-58. *)

\* The load effect, lines 44-53: the update it queues, if any.
LoadHistory(st) ==
    IF st.present /\ st.text # <<>>
    THEN LET r == JSONParse(st.text) IN
         IF r.ok THEN [set |-> TRUE, val |-> r.val] ELSE NoUpdate
    ELSE NoUpdate

\* the two effects declared in the other order
MountSaveFirst ==
    /\ phase = "unmounted"
    /\ storage' = SaveHistory(history)
    /\ pending' = LoadHistory(storage')
    /\ phase' = IF pending'.set THEN "mounted" ELSE "ready"
    /\ turn' = Did("mount")
    /\ UNCHANGED <<url, fgColor, bgColor, size, history, copied, writes, timers,
                   now, added, lastOk, before>>

\* The first commit: both effects run in the order they are declared, the save
\* effect with the history of the first render, [].
Mount ==
    /\ phase = "unmounted"
    /\ pending' = LoadHistory(storage)
    /\ storage' = SaveHistory(history)
    /\ phase' = IF pending'.set THEN "mounted" ELSE "ready"
    /\ turn' = Did("mount")
    /\ UNCHANGED <<url, fgColor, bgColor, size, history, copied, writes, timers,
                   now, added, lastOk, before>>

\* The re-render caused by the load effect's setHistory, and its save effect.
Hydrate ==
    /\ phase = "mounted"
    /\ pending.set
    /\ CommitHistory(pending.val)
    /\ pending' = NoUpdate
    /\ turn' = Did("hydrate")
    /\ UNCHANGED <<url, fgColor, bgColor, size, copied, writes, timers, now,
                   added, lastOk, before>>

\* The page is loaded again: every cell is back to its initial value, timers and
\* promises are gone, localStorage stays.
Reload ==
    /\ phase \in {"ready", "crashed"}
    /\ phase' = "unmounted"
    /\ url' = InitialUrl
    /\ fgColor' = InitialFgColor
    /\ bgColor' = InitialBgColor
    /\ size' = InitialSize
    /\ history' = JArr(<<>>)
    /\ copied' = FALSE
    /\ pending' = NoUpdate
    /\ writes' = 0
    /\ timers' = <<>>
    /\ turn' = Did("reload")
    /\ lastOk' = -1
    /\ before' = [set |-> TRUE, history |-> history, storage |-> storage]
    /\ UNCHANGED <<storage, now, added>>

---------------------------------------------------------------------------
(* The inputs: lines 179, 201, 216, 234. *)

SetUrl(u) ==
    /\ Interactive
    /\ url' = u
    /\ turn' = Did("input")
    /\ UNCHANGED <<phase, fgColor, bgColor, size, history, copied, storage,
                   pending, writes, timers, now, added, lastOk, before>>

SetFgColor(c) ==
    /\ Interactive
    /\ fgColor' = c
    /\ turn' = Did("input")
    /\ UNCHANGED <<phase, url, bgColor, size, history, copied, storage,
                   pending, writes, timers, now, added, lastOk, before>>

SetBgColor(c) ==
    /\ Interactive
    /\ bgColor' = c
    /\ turn' = Did("input")
    /\ UNCHANGED <<phase, url, fgColor, size, history, copied, storage,
                   pending, writes, timers, now, added, lastOk, before>>

SetSize(n) ==
    /\ Interactive
    /\ size' = n
    /\ turn' = Did("input")
    /\ UNCHANGED <<phase, url, fgColor, bgColor, history, copied, storage,
                   pending, writes, timers, now, added, lastOk, before>>

---------------------------------------------------------------------------
(* The history: lines 60-75, 132-140. *)

\* Math.random().toString(36).substr(2, 9): the k-th call draws its own id
NewId(k) == <<"r">> \o NumLit(k)

\* the head compared as a whole configuration, not by its address
AddChangesWholeItem(h, u) ==
    /\ ~(u = <<>> \/ Trim(u) = <<>>)
    /\ \/ JsLength(h) = 0
       \/ ItemUrl(Spread(h)[1]) # Trim(u)
       \/ Spread(h)[1].fgColor # fgColor
       \/ Spread(h)[1].bgColor # bgColor

\* the guard of line 61 without its trim
AddChangesNoTrim(h, u) ==
    /\ u # <<>>
    /\ (JsLength(h) = 0 \/ ItemUrl(Spread(h)[1]) # Trim(u))

\* lines 61-72: whether addToHistory calls setHistory
AddChanges(h, u) ==
    /\ ~(u = <<>> \/ Trim(u) = <<>>)
    /\ (JsLength(h) = 0 \/ ItemUrl(Spread(h)[1]) # Trim(u))

\* the new item put last and the first ten kept
PrependAtTail(newItem, prev) == JArr(Slice0(Spread(prev) \o <<newItem>>, HistoryCap))

\* line 73: the updater
Prepend(newItem, prev) == JArr(Slice0(<<newItem>> \o Spread(prev), HistoryCap))

\* addToHistory, lines 60-75, with the commit that follows it
AddToHistory ==
    /\ added' = Append(added, Trim(url))
    /\ IF AddChanges(history, url)
       THEN CommitHistory(Prepend(QRHistoryItem(NewId(Len(added) + 1), Trim(url),
                                                fgColor, bgColor, now), history))
       ELSE UNCHANGED <<phase, history, storage>>

\* addToHistory called on its own
AddCall ==
    /\ Interactive
    /\ AddToHistory
    /\ turn' = Turn("add", <<"add">>, FALSE, 0)
    /\ UNCHANGED <<url, fgColor, bgColor, size, copied, pending, writes, timers,
                   now, lastOk, before>>

\* line 332: disabled={!url}
DownloadEnabled == url # <<>>

\* addToHistory called before the download is triggered
DownloadQRAddFirst(canvas, ctx) ==
    /\ Interactive
    /\ DownloadEnabled
    /\ IF canvas /\ ctx
       THEN /\ AddToHistory
            /\ turn' = Turn("download", <<"add", "download">>, TRUE, 0)
       ELSE /\ turn' = Turn("download", <<>>, FALSE, 0)
            /\ UNCHANGED <<phase, history, storage, added>>
    /\ UNCHANGED <<url, fgColor, bgColor, size, copied, pending, writes, timers,
                   now, lastOk, before>>

\* downloadQR, lines 77-120.  canvas: the QR canvas is found (line 78-79);
\* ctx: getContext('2d') gives a context (lines 87-89).
DownloadQR(canvas, ctx) ==
    /\ Interactive
    /\ DownloadEnabled
    /\ IF canvas /\ ctx
       THEN /\ AddToHistory
            /\ turn' = Turn("download", <<"download", "add">>, TRUE, 0)
       ELSE /\ turn' = Turn("download", <<>>, FALSE, 0)
            /\ UNCHANGED <<phase, history, storage, added>>
    /\ UNCHANGED <<url, fgColor, bgColor, size, copied, pending, writes, timers,
                   now, lastOk, before>>

\* clearHistory, lines 132-134; its button is rendered when history.length > 0
ClearHistory ==
    /\ Interactive
    /\ JsLength(history) > 0
    /\ CommitHistory(JArr(<<>>))
    /\ turn' = Did("clear")
    /\ UNCHANGED <<url, fgColor, bgColor, size, copied, pending, writes, timers,
                   now, added, lastOk, before>>

\* the selected item also moved to the front of the history
LoadFromHistoryToFront(i) ==
    /\ Interactive
    /\ history.kind = "array"
    /\ i \in 1..Len(history.items)
    /\ url' = history.items[i].url
    /\ fgColor' = history.items[i].fgColor
    /\ bgColor' = history.items[i].bgColor
    /\ CommitHistory(JArr(<<history.items[i]>>
                          \o SubSeq(history.items, 1, i - 1)
                          \o SubSeq(history.items, i + 1, Len(history.items))))
    /\ turn' = Turn("select", <<>>, FALSE, i)
    /\ UNCHANGED <<size, copied, pending, writes, timers, now, added, lastOk, before>>

\* loadFromHistory, lines 136-140, on the i-th rendered item
LoadFromHistory(i) ==
    /\ Interactive
    /\ history.kind = "array"
    /\ i \in 1..Len(history.items)
    /\ url' = history.items[i].url
    /\ fgColor' = history.items[i].fgColor
    /\ bgColor' = history.items[i].bgColor
    /\ turn' = Turn("select", <<>>, FALSE, i)
    /\ UNCHANGED <<phase, size, history, copied, storage, pending, writes,
                   timers, now, added, lastOk, before>>

---------------------------------------------------------------------------
(* The clipboard: lines 122-130. *)

\* copyToClipboard up to its await: the write is in flight
CopyClick ==
    /\ Interactive
    /\ writes' = writes + 1
    /\ turn' = Did("copy")
    /\ UNCHANGED <<phase, url, fgColor, bgColor, size, history, copied, storage,
                   pending, timers, now, added, lastOk, before>>

\* the write resolves: lines 125-126
CopyResolved ==
    /\ Interactive
    /\ writes > 0
    /\ writes' = writes - 1
    /\ copied' = TRUE
    /\ timers' = Append(timers, now + CopiedResetMs)
    /\ lastOk' = now
    /\ turn' = Did("copied")
    /\ UNCHANGED <<phase, url, fgColor, bgColor, size, history, storage,
                   pending, now, added, before>>

\* the write rejects: lines 127-129, console.error only
CopyRejected ==
    /\ Interactive
    /\ writes > 0
    /\ writes' = writes - 1
    /\ turn' = Did("copyFailed")
    /\ UNCHANGED <<phase, url, fgColor, bgColor, size, history, copied, storage,
                   pending, timers, now, added, lastOk, before>>

\* the callback of line 126, for the oldest timer, once it is due
TimerFires ==
    /\ Interactive
    /\ timers # <<>>
    /\ Head(timers) <= now
    /\ timers' = Tail(timers)
    /\ copied' = FALSE
    /\ turn' = Did("timer")
    /\ UNCHANGED <<phase, url, fgColor, bgColor, size, history, storage,
                   pending, writes, now, added, lastOk, before>>

\* d ms pass, up to limit; a due timer fires before time moves on
Tick(d, limit) ==
    /\ now + d <= limit
    /\ IF timers = <<>> THEN TRUE ELSE now + d <= Head(timers)
    /\ now' = now + d
    /\ UNCHANGED <<phase, url, fgColor, bgColor, size, history, copied, storage,
                   pending, writes, timers, turn, added, lastOk, before>>

---------------------------------------------------------------------------
(* The session: the page as its user drives it. *)

UrlInputs == {<<>>, <<" ">>, <<"a", Q>>, <<" ", "a", Q>>}
ColorInputs == {InitialFgColor, InitialBgColor}
SizeInputs == {128, InitialSize}
TickInputs == {1000}

Start(st) ==
    /\ phase = "unmounted"
    /\ url = InitialUrl
    /\ fgColor = InitialFgColor
    /\ bgColor = InitialBgColor
    /\ size = InitialSize
    /\ history = JArr(<<>>)
    /\ copied = FALSE
    /\ storage = st
    /\ pending = NoUpdate
    /\ writes = 0
    /\ timers = <<>>
    /\ now = 0
    /\ turn = NoTurn
    /\ added = <<>>
    /\ lastOk = -1
    /\ before = [set |-> FALSE, history |-> JArr(<<>>), storage |-> st]

Init == Start(Absent)

Export == \E canvas, ctx \in BOOLEAN : Len(added) < MaxCalls /\ DownloadQR(canvas, ctx)

Next ==
    \/ Mount
    \/ Hydrate
    \/ Reload
    \/ \E u \in UrlInputs : SetUrl(u)
    \/ \E c \in ColorInputs : SetFgColor(c)
    \/ \E c \in ColorInputs : SetBgColor(c)
    \/ \E n \in SizeInputs : SetSize(n)
    \/ Export
    \/ ClearHistory
    \/ \E i \in 1..HistoryCap : LoadFromHistory(i)

Spec == Init /\ [][Next]_vars

---------------------------------------------------------------------------
(* The history store on its own: addToHistory called directly, with the    *)
(* clock running.                                                          *)

StoreAdd == Len(added) < MaxCalls /\ AddCall

StoreNext ==
    \/ Mount
    \/ \E u \in UrlInputs : SetUrl(u)
    \/ \E c \in ColorInputs : SetFgColor(c)
    \/ \E c \in ColorInputs : SetBgColor(c)
    \/ StoreAdd
    \/ ClearHistory
    \/ \E d \in TickInputs : Tick(d, 1000 * MaxSeconds)

SpecStore == Init /\ [][StoreNext]_vars

---------------------------------------------------------------------------
(* Runs of addToHistory calls with pairwise distinct, non-blank addresses, *)
(* from an empty history.  The k-th call's address is one of               *)
(* DistinctInputs(k), typed with or without blanks around it.              *)

Range(f) == {f[i] : i \in DOMAIN f}

DistinctInputs(k) ==
    UNION {{<<c>> \o NumLit(k), <<" ", c>> \o NumLit(k) \o <<" ">>} : c \in {"a", "b"}}

DistinctSetUrl ==
    /\ Len(added) < MaxDistinct
    /\ \E u \in DistinctInputs(Len(added) + 1) : SetUrl(u)

DistinctAdd ==
    /\ Len(added) < MaxDistinct
    /\ Trim(url) # <<>>
    /\ Trim(url) \notin Range(added)
    /\ AddCall

DistinctNext ==
    \/ Mount
    \/ DistinctSetUrl
    \/ DistinctAdd

SpecDistinct == Init /\ [][DistinctNext]_vars

---------------------------------------------------------------------------
(* Startup on whatever localStorage holds.                                 *)

ValidItem == QRHistoryItem(<<"r", "1">>, <<"a">>, InitialFgColor, InitialBgColor, 0)

RawStorage ==
    { Absent,
      Stored(<<>>),
      Stored(<<"[", "{">>),
      Stored(<<"x">>),
      Stored(<<"null">>),
      Stored(<<"7">>),
      Stored(StrLit(<<>>)),
      Stored(StrLit(<<"a">>)),
      Stored(<<"{", "}">>),
      Stored(<<"[", "null", "]">>),
      Stored(<<"[", "7", "]">>),
      Stored(<<"[", "]">>),
      Stored(Stringify(JArr(<<ValidItem>>))) }

HydrateInit == \E st \in RawStorage : Start(st)

HydrateNext ==
    \/ Mount
    \/ Hydrate
    \/ Reload
    \/ \E u \in UrlInputs : SetUrl(u)
    \/ Export
    \/ ClearHistory

SpecHydrate == HydrateInit /\ [][HydrateNext]_vars

---------------------------------------------------------------------------
(* The clipboard acknowledgment, with the clock running.                   *)

CopyTickInputs == {500, 1000}

CopyNext ==
    \/ Mount
    \/ writes + Len(timers) < MaxCopies /\ CopyClick
    \/ CopyResolved
    \/ CopyRejected
    \/ TimerFires
    \/ \E d \in CopyTickInputs : Tick(d, 1000 * MaxCopySeconds)

SpecCopy == Init /\ [][CopyNext]_vars

---------------------------------------------------------------------------
(* Properties *)

Min(a, b) == IF a < b THEN a ELSE b
IsBlank(u) == Trim(u) = <<>>
Items == history.items
Last(q) == q[Len(q)]

\* C1: from an empty history, after n addToHistory calls with pairwise distinct
\* non-blank trimmed addresses the history holds min(n, 10) entries, entry i
\* being the i-th most recently added address; the oldest ones are dropped.
C1_MostRecentFirst ==
    /\ history.kind = "array"
    /\ Len(Items) = Min(Len(added), HistoryCap)
    /\ \A i \in 1..Len(Items) : Items[i].url = added[Len(added) - i + 1]

\* twelve distinct calls have been made, the two oldest addresses are gone
C1_Witness ==
    /\ Len(added) = HistoryCap + 2
    /\ Len(Items) = HistoryCap
    /\ Items[1].url = Last(added)
    /\ Items[HistoryCap].url = added[3]
    /\ url # Trim(url)
    /\ Trim(url) = Last(added)

\* a step in which addToHistory is called
AddCalled == Len(added') = Len(added) + 1

\* C2: addToHistory called with the address of the head entry leaves the history
\* and the persisted value as they are: no entry is added and the head keeps its
\* id, timestamp and colors, whatever the current colors are.
C2_HeadMatchNoOp ==
    [][(AddCalled /\ JsLength(history) > 0 /\ ItemUrl(Spread(history)[1]) = Trim(url))
        => (history' = history /\ storage' = storage)]_vars

\* two calls in a row with one address, the colors changed and the clock moved
\* in between: one entry, with the first call's colors and timestamp
C2_Witness ==
    /\ turn.op = "add"
    /\ Len(added) = 2
    /\ added[1] = added[2]
    /\ Len(Items) = 1
    /\ Items[1].url = Trim(url)
    /\ Items[1].id = NewId(1)
    /\ Items[1].fgColor # fgColor
    /\ Items[1].bgColor # bgColor
    /\ Items[1].timestamp < now

\* C3: with an empty or blank address the export is a no-op: no download is
\* triggered and no history entry is added.
C3_BlankExportNoOp ==
    IsBlank(url) => turn.effects = <<>>

\* C4: after a reload and the startup that follows it (load effect, save
\* effect, the re-render and its save effect) the history is the one held
\* before the reload and the persisted value is the one the page was loaded with.
C4_RoundTrip ==
    (phase = "ready" /\ before.set /\ turn.op \in {"mount", "hydrate"})
        => (history = before.history /\ storage = before.storage)

\* a history of two entries came back from a reload
C4_Witness ==
    /\ phase = "ready"
    /\ before.set
    /\ turn.op = "hydrate"
    /\ Len(Items) = 2
    /\ history = before.history

\* C6: after clearHistory the history is empty and the persisted value is the
\* serialization of the empty array; after every turn that changes the history
\* the persisted value is the serialization of the whole history.
C6_PersistedAfterMutation ==
    /\ turn.op = "clear" => (history = JArr(<<>>) /\ storage = Stored(<<"[", "]">>))
    /\ phase = "ready" => (storage.present /\ storage.text = Stringify(history))

\* the history was cleared after an export had filled it
C6_Witness ==
    /\ turn.op = "clear"
    /\ Len(added) > 0
    /\ storage.text = <<"[", "]">>

\* C7: an export with a non-blank address and a drawable symbol triggers one
\* download and then calls addToHistory once, and the head entry then holds the
\* trimmed address; without a canvas or a context it does neither.
C7_ExportOrder ==
    [][turn'.op = "download"
        => IF turn'.drawable
           THEN ~IsBlank(url)
                => /\ turn'.effects = <<"download", "add">>
                   /\ added' = Append(added, Trim(url))
                   /\ JsLength(history') > 0
                   /\ ItemUrl(Spread(history')[1]) = Trim(url')
           ELSE /\ turn'.effects = <<>>
                /\ added' = added
                /\ history' = history
                /\ storage' = storage]_vars

\* an export of a padded address put a second entry in the history
C7_Witness ==
    /\ turn.op = "download"
    /\ turn.drawable
    /\ url # Trim(url)
    /\ Len(Items) = 2
    /\ Items[1].url = Trim(url)
    /\ Items[1].id = NewId(2)

\* C9: selecting a history entry sets address, foreground and background to the
\* entry's values and leaves the history, the persisted value and the size as
\* they are.
C9_SelectIsProjection ==
    [][turn'.op = "select"
        => /\ turn'.item \in 1..Len(Items)
           /\ url' = Items[turn'.item].url
           /\ fgColor' = Items[turn'.item].fgColor
           /\ bgColor' = Items[turn'.item].bgColor
           /\ history' = history
           /\ storage' = storage
           /\ size' = size]_vars

\* the second entry was selected: it is still second, and the size chosen
\* earlier is kept
C9_Witness ==
    /\ turn.op = "select"
    /\ turn.item = 2
    /\ Len(Items) = 2
    /\ url = Items[2].url
    /\ url # Items[1].url
    /\ fgColor = Items[2].fgColor
    /\ fgColor # Items[1].fgColor
    /\ size # InitialSize

\* C10: addToHistory with an empty or blank address changes neither the history
\* nor the persisted value.
C10_BlankAddNoOp ==
    [][(AddCalled /\ IsBlank(url)) => (history' = history /\ storage' = storage)]_vars

\* addToHistory was called with the empty address on a history of one entry
C10_Witness ==
    /\ turn.op = "add"
    /\ url = <<>>
    /\ Last(added) = <<>>
    /\ Len(Items) = 1

\* a persisted value that is the serialization of a sequence of entries
IsEntry(v) == v.kind = "object" /\ Range(ItemKeys) \subseteq DOMAIN v
ValidPersisted(st) ==
    /\ st.present
    /\ JSONParse(st.text).ok
    /\ JSONParse(st.text).val.kind = "array"
    /\ \A i \in 1..Len(JSONParse(st.text).val.items) : IsEntry(JSONParse(st.text).val.items[i])

\* C5: a persisted value that is not a valid serialized sequence of entries is
\* discarded at startup: the history is empty after hydration and the page does
\* not fail.
C5_CorruptDiscarded ==
    ~ValidPersisted(before.storage)
        => /\ phase # "crashed"
           /\ (phase = "ready" /\ turn.op \in {"mount", "hydrate"}) => history = JArr(<<>>)

\* C8: copied is true only after a clipboard write has succeeded, stays true for
\* 2000 ms after the latest success and is false once they have passed.
C8_AckLastsTwoSeconds ==
    /\ copied => lastOk >= 0
    /\ (lastOk >= 0 /\ now < lastOk + CopiedResetMs) => copied
    /\ (lastOk >= 0 /\ now > lastOk + CopiedResetMs) => ~copied

=============================================================================
